---- MODULE Spec2Model ----
(***************************************************************************)
(* State-machine model of src/main.py: main() fans out one                 *)
(* get_illustration() pipeline per target URL; the pipelines share the     *)
(* result list all_tweet_data, the author dictionary unique_authors and    *)
(* the asyncio lock data_lock.                                             *)
(*                                                                         *)
(* Text values are sequences of characters.  A character is a TLA+ string; *)
(* a multi-letter one ("alice", "x.com") stands for a run of letters and   *)
(* digits that contains none of the characters the code looks for.         *)
(***************************************************************************)
EXTENDS Integers, Sequences, FiniteSets, TLC

\* ------------------------------------------------------------------ bounds
\* Longest enumerated target file, in lines.
MaxLines == 2

\* Longest snapshot of article elements one pass enumerates.
MaxArticles == 2

\* Longest snapshot when two pipelines run concurrently.
MaxShared == 1

\* --------------------------------------------------------------- constants
\* for x in range(999)
ScrollCap == 999

IMAGE_DIR_BASE == <<"images">>

Origin == <<"https:", "/", "/", "x.com">>

ProfilePrefix == <<"https:", "/", "/", "x.com", "/">>

None == <<"None">>

\* ---------------------------------------------------------- string helpers
Min(a, b) == IF a < b THEN a ELSE b

Max(a, b) == IF a > b THEN a ELSE b

\* s.startswith(pre)
startswith(s, pre) == Len(s) >= Len(pre) /\ SubSeq(s, 1, Len(pre)) = pre

\* s.rfind(c): 0-based index of the last c, -1 when there is none
rfind(s, c) ==
    IF \E n \in 1..Len(s) : s[n] = c
    THEN (CHOOSE n \in 1..Len(s) : s[n] = c /\ \A m \in (n+1)..Len(s) : s[m] # c) - 1
    ELSE -1

\* s.find(c): 0-based index of the first c, -1 when there is none
find(s, c) ==
    IF \E n \in 1..Len(s) : s[n] = c
    THEN (CHOOSE n \in 1..Len(s) : s[n] = c /\ \A m \in 1..(n-1) : s[m] # c) - 1
    ELSE -1

\* s[:n] with Python's reading of a negative n
SliceTo(s, n) ==
    SubSeq(s, 1, IF n < 0 THEN Max(Len(s) + n, 0) ELSE Min(n, Len(s)))

\* s[n:] for n >= 0
SliceFrom(s, n) == SubSeq(s, n + 1, Len(s))

\* s.lstrip(c)
RECURSIVE lstrip(_, _)
lstrip(s, c) == IF s # <<>> /\ Head(s) = c THEN lstrip(Tail(s), c) ELSE s

RECURSIVE rstrip(_, _)
rstrip(s, c) ==
    IF s # <<>> /\ s[Len(s)] = c THEN rstrip(SubSeq(s, 1, Len(s) - 1), c) ELSE s

\* s.strip()
strip(s) == rstrip(lstrip(s, " "), " ")

\* s.split(c)[-1]
SplitLast(s, c) == SliceFrom(s, rfind(s, c) + 1)

\* s.split(c)[0]
SplitFirst(s, c) == IF find(s, c) < 0 THEN s ELSE SliceTo(s, find(s, c))

\* c.isalnum(), for the characters the model uses
SpecialChars == {"/", "?", "@", " ", "-", "_", ".", ":", "!", ".jpg", "https:", "x.com"}

isalnum(c) == c \notin SpecialChars

\* "".join([c for c in s if keep(c)])
RECURSIVE SanitizeChars(_)
SanitizeChars(s) ==
    IF s = <<>> THEN <<>>
    ELSE IF isalnum(Head(s)) \/ Head(s) \in {" ", "-", "_"}
         THEN <<Head(s)>> \o SanitizeChars(Tail(s))
         ELSE SanitizeChars(Tail(s))

\* base_username = url.split('/')[-1].split('?')[0]
base_username(url) == SplitFirst(SplitLast(url, "/"), "?")

\* ----------------------------------------------------------- read the urls
\* a variant without the prefix test: every line that is not blank is kept
IsNonBlankLine(line) == strip(line) # <<>>

\* a line of the target file starts with "http" after strip()
IsHttpLine(line) == strip(line) # <<>> /\ Head(strip(line)) \in {"https:", "http:"}

RECURSIVE KeepUrls(_)
KeepUrls(lines) ==
    IF lines = <<>> THEN <<>>
    ELSE IF IsHttpLine(Head(lines))
         THEN <<strip(Head(lines))>> \o KeepUrls(Tail(lines))
         ELSE KeepUrls(Tail(lines))

\* read_urls_from_file: file.exists is os.path.exists(filepath), file.lines its lines
read_urls_from_file(file) == IF ~file.exists THEN <<>> ELSE KeepUrls(file.lines)

\* ------------------------------------------------------- one content block
\* What the parsed markup of one article element holds:
\*   ad        the advertisement marker is present
\*   time      a time element is present
\*   datetime  its datetime attribute: <<Y, M, D, h, m, s, micro>> when it has the
\*             format %Y-%m-%dT%H:%M:%S.%fZ, any other sequence when it has not
\*   href      the href of the time element's parent (<<>>: none)
\*   text      the text of the tweetText container (<<>>: none)
\*   photo     the src of each img of the tweetPhoto container (None: no src)
\*   user      the texts of the spans of the User-Name container (<<>>: none)

\* datetime.strptime(publish_time, "%Y-%m-%dT%H:%M:%S.%fZ") does not raise
strptime_ok(dt) == Len(dt) = 7

\* .strftime(...): year, month, day, hour, minute, second; the fraction is dropped
strftime(dt) == SubSeq(dt, 1, 6)

\* "video_thumb" not in img.get("src", "")
NotVideoThumb(src) == src = None \/ \A n \in 1..Len(src) : src[n] # "video_thumb"

\* publish_images: the photo container's srcs without the video thumbnails
RECURSIVE publish_images_of(_)
publish_images_of(photo) ==
    IF photo = <<>> THEN <<>>
    ELSE IF NotVideoThumb(Head(photo))
         THEN <<Head(photo)>> \o publish_images_of(Tail(photo))
         ELSE publish_images_of(Tail(photo))

\* a variant that takes the last span that starts with '@'
LastAtSpan(spans) ==
    IF \E n \in 1..Len(spans) : startswith(spans[n], <<"@">>)
    THEN CHOOSE n \in 1..Len(spans) :
            /\ startswith(spans[n], <<"@">>)
            /\ \A m \in (n+1)..Len(spans) : ~startswith(spans[m], <<"@">>)
    ELSE 0

\* index of the first span that starts with '@', 0 when there is none
FirstAtSpan(spans) ==
    IF \E n \in 1..Len(spans) : startswith(spans[n], <<"@">>)
    THEN CHOOSE n \in 1..Len(spans) :
            /\ startswith(spans[n], <<"@">>)
            /\ \A m \in 1..(n-1) : ~startswith(spans[m], <<"@">>)
    ELSE 0

\* author_name, author_handle and author_profile_url of a block seen by the
\* pipeline of target `url`
AuthorOf(spans, url) ==
    LET name == IF Len(spans) >= 1 THEN spans[1] ELSE <<>>
        at   == FirstAtSpan(spans)
    IN  IF at > 0
        THEN [name |-> name, handle |-> spans[at],
              profile |-> Origin \o <<"/">> \o lstrip(spans[at], "@")]
        ELSE IF Len(spans) > 1 /\ startswith(url, ProfilePrefix) /\ base_username(url) # <<>>
        THEN [name |-> name, handle |-> <<"@">> \o base_username(url), profile |-> url]
        ELSE [name |-> name, handle |-> <<>>, profile |-> <<>>]

\* author = f"{author_name}{' ' + author_handle if author_handle else ''}".strip()
AuthorLabel(a) == strip(a.name \o (IF a.handle # <<>> THEN <<" ">> \o a.handle ELSE <<>>))

\* image_base_url = image_url[:image_url.rfind("?")]
image_base_url(image_url) == SliceTo(image_url, rfind(image_url, "?"))

\* image_name = image_base_url[image_base_url.rfind("/") + 1:]
image_name(image_url) ==
    SliceFrom(image_base_url(image_url), rfind(image_base_url(image_url), "/") + 1)

\* sanitized_author_name, with its fallback
sanitized_author_name(author) ==
    IF strip(SanitizeChars(author)) = <<>> THEN <<"Unknown_Author">>
    ELSE strip(SanitizeChars(author))

\* author_image_dir = os.path.join(IMAGE_DIR_BASE, sanitized_author_name)
author_image_dir(author) == IMAGE_DIR_BASE \o <<"/">> \o sanitized_author_name(author)

\* local_image_path = os.path.join(author_image_dir, f"{image_name}.jpg")
local_image_path(author, image_url) ==
    author_image_dir(author) \o <<"/">> \o image_name(image_url) \o <<".jpg">>

\* os.path.abspath: the path under the working directory
abspath(path) == <<"/", "cwd", "/">> \o path

\* the empty tweet_data dictionary of one article
EmptyTweet(task) ==
    [task_name |-> task, publish_time |-> <<>>, author |-> <<>>,
     author_profile_url |-> <<>>, publish_url |-> <<>>, publish_content |-> <<>>,
     image_url |-> <<>>, local_image_path |-> <<>>]

\* author_name in unique_authors (an insertion-ordered dictionary)
InAuthors(d, name) == \E n \in 1..Len(d) : d[n].name = name

\* ------------------------------------------------------------- the cookies
\* A cookie of cookies.json is a record with the fields name and value and,
\* when the entry has the key, sameSite.  The value "null" stands for null in
\* the file and for Python's None.

\* {'strict': 'Strict', 'Lax': 'lax', 'none': 'None'}.get(v)
same_site_lookup(v) ==
    CASE v = "strict" -> "Strict"
      [] v = "Lax" -> "lax"
      [] v = "none" -> "None"
      [] OTHER -> "null"

\* cookie.get('sameSite')
same_site_of(cookie) == IF "sameSite" \in DOMAIN cookie THEN cookie.sameSite ELSE "null"

\* a variant that leaves the entry as it is in the file
adjust_cookie_keeps(cookie) == cookie

\* the body of "for cookie in cookies": the sameSite attribute is replaced by
\* its looked-up value when that is one of Strict, Lax, None, and deleted
\* otherwise when the entry has one
adjust_cookie(cookie) ==
    IF same_site_lookup(same_site_of(cookie)) \in {"Strict", "Lax", "None"}
    THEN [cookie EXCEPT !.sameSite = same_site_lookup(same_site_of(cookie))]
    ELSE IF "sameSite" \in DOMAIN cookie
         THEN [k \in DOMAIN cookie \ {"sameSite"} |-> cookie[k]]
         ELSE cookie

\* context.add_cookies(cookies): the context holds the adjusted entries
add_cookies(held, cookies) == held \cup {adjust_cookie(cookies[n]) : n \in 1..Len(cookies)}

\* ------------------------------------------------------------------- state
VARIABLES
    url_file,               \* urlTarget.txt: [exists, lines]
    cookies_json,           \* the list cookies.json holds when it parses
    context_cookies,        \* the cookies of the browser context
    site,                   \* what the site shows: [blocks, longest, endless]
    mpc,                    \* where main() is
    target_urls,            \* main's target_urls
    exported,               \* the saved workbook: [rows, authors]
    all_tweet_data,         \* the shared result list
    unique_authors,         \* the shared author dictionary, in insertion order
    data_lock,              \* data_lock.locked()
    files,                  \* the image files on disk
    dirs,                   \* the author directories on disk
    pc,                     \* per pipeline: where get_illustration is
    setup_result,           \* per pipeline: how the cookie load and the navigation ended
    page,                   \* per pipeline: "none", "open" or "closed"
    scrolled,               \* per pipeline: scroll actions issued on its page
    x,                      \* per pipeline: the pass index
    wait_result,            \* per pipeline: how the last wait for an article ended
    processed_tweet_urls,   \* per pipeline: the dedup set
    articles,               \* per pipeline: the snapshot of the pass
    i,                      \* per pipeline: index of the article in the snapshot (0-based)
    processed_this_scroll,  \* per pipeline: items newly accepted in the pass
    art                     \* per pipeline: the locals of the article being processed

shared == <<all_tweet_data, unique_authors, data_lock, files, dirs>>

mainv == <<url_file, site, mpc, target_urls, exported, cookies_json, context_cookies>>

loopv == <<scrolled, x, wait_result, processed_tweet_urls, articles, i, processed_this_scroll>>

vars == <<mainv, shared, pc, setup_result, page, loopv, art>>

Tasks == DOMAIN pc

\* async_name: the N of "Task-N"; main() itself runs as Task-1
async_name(p) == p + 1

\* no article is being processed
NoArt ==
    [tweet_data |-> EmptyTweet(0), author_name |-> <<>>, author |-> <<>>,
     publish_images |-> <<>>, k |-> 0, current_image_data |-> EmptyTweet(0),
     download |-> "none"]

\* ------------------------------------------------------------------- sites
Jane == <<"Jane">>

ImgOne == <<"pbs", "/", "img1", "?", "small">>

ImgTwo == <<"pbs", "/", "img2", "?", "small">>

GoodTime == <<2024, 3, 5, 10, 15, 30, 0>>

Block(user, href, photo, datetime) ==
    [ad |-> FALSE, time |-> TRUE, datetime |-> datetime, href |-> href,
     text |-> <<"hi">>, photo |-> photo, user |-> user]

TweetA == Block(<<Jane, <<"@", "a">>>>, <<"/", "s1">>, <<ImgOne>>, GoodTime)

TweetB == Block(<<Jane, <<"@", "b">>>>, <<"/", "s2">>, <<>>, GoodTime)

VideoThumb == <<"pbs", "/", "video_thumb", "/", "v1", "?", "small">>

TweetTwoImages ==
    Block(<<Jane, <<"@", "a">>>>, <<"/", "s3">>, <<ImgOne, VideoThumb, ImgTwo>>, GoodTime)

TweetBadTime == Block(<<Jane, <<"@", "a">>>>, <<"/", "s4">>, <<ImgOne>>, <<"yesterday">>)

AdBlock == [TweetA EXCEPT !.ad = TRUE]

\* the block an endless site reveals in pass n: a new permalink every pass, so
\* every pass accepts a new item; one item in a hundred has a timestamp in the
\* expected format and leaves a record, which keeps the result list short
FreshBlock(n) ==
    Block(<<>>, <<"/", ToString(n)>>, <<>>, IF n % 100 = 0 THEN GoodTime ELSE <<"later">>)

TargetAlice == ProfilePrefix \o <<"alice">>

TargetBob == ProfilePrefix \o <<"bob">>

\* sequences over S of length 0..n
RECURSIVE SeqUpTo(_, _)
SeqUpTo(S, n) ==
    IF n = 0 THEN {<<>>}
    ELSE SeqUpTo(S, n - 1) \cup {Append(q, b) : q \in SeqUpTo(S, n - 1), b \in S}

\* what articles.count() and articles.nth(i) can show pipeline p after a scroll
Snapshots(p) ==
    IF site.endless THEN {<<FreshBlock(x[p])>>}
    ELSE SeqUpTo(site.blocks, site.longest)

\* the session cookie of the runs that are not about the cookie load
SessionCookies == <<[name |-> "auth_token", value |-> "t1", sameSite |-> "no_restriction"]>>

InitWithCookies(file_choices, site_choices, cookie_choices) ==
    /\ url_file \in file_choices
    /\ site \in site_choices
    /\ cookies_json \in cookie_choices
    /\ context_cookies = {}
    /\ mpc = "start"
    /\ target_urls = <<>>
    /\ exported = [rows |-> <<>>, authors |-> <<>>]
    /\ all_tweet_data = <<>>
    /\ unique_authors = <<>>
    /\ data_lock = FALSE
    /\ files = {}
    /\ dirs = {}
    /\ pc = <<>>
    /\ setup_result = <<>>
    /\ page = <<>>
    /\ scrolled = <<>>
    /\ x = <<>>
    /\ wait_result = <<>>
    /\ processed_tweet_urls = <<>>
    /\ articles = <<>>
    /\ i = <<>>
    /\ processed_this_scroll = <<>>
    /\ art = <<>>

InitWith(file_choices, site_choices) ==
    InitWithCookies(file_choices, site_choices, {SessionCookies})

\* ------------------------------------------------------------------ main()
\* main() up to asyncio.gather: read the targets, one pipeline per target
Main_Start ==
    /\ mpc = "start"
    /\ target_urls' = read_urls_from_file(url_file)
    /\ LET n == Len(read_urls_from_file(url_file))
       IN  /\ mpc' = IF n = 0 THEN "returned" ELSE "gather"
           /\ pc' = [p \in 1..n |-> "cookies"]
           /\ setup_result' = [p \in 1..n |-> "pending"]
           /\ page' = [p \in 1..n |-> "none"]
           /\ scrolled' = [p \in 1..n |-> 0]
           /\ x' = [p \in 1..n |-> 0]
           /\ wait_result' = [p \in 1..n |-> "none"]
           /\ processed_tweet_urls' = [p \in 1..n |-> {}]
           /\ articles' = [p \in 1..n |-> <<>>]
           /\ i' = [p \in 1..n |-> 0]
           /\ processed_this_scroll' = [p \in 1..n |-> 0]
           /\ art' = [p \in 1..n |-> NoArt]
    /\ UNCHANGED <<url_file, site, exported, cookies_json, context_cookies, shared>>

\* os.path.exists(local_image_path) as the export sees it
ExportRow(row) ==
    [data |-> row,
     local |-> IF row.local_image_path = <<>> THEN "empty"
               ELSE IF \E f \in files : abspath(f) = row.local_image_path THEN "hyperlink"
               ELSE "not downloaded"]

\* a variant that exports as soon as one pipeline is over
Main_ExportEarly ==
    /\ mpc = "gather"
    /\ \E p \in Tasks : pc[p] \in {"finished", "returned"}
    /\ exported' = [rows |-> [n \in 1..Len(all_tweet_data) |-> ExportRow(all_tweet_data[n])],
                    authors |-> unique_authors]
    /\ mpc' = "saved"
    /\ UNCHANGED <<url_file, site, target_urls, cookies_json, context_cookies, shared, pc,
                   setup_result, page, loopv, art>>

\* gather has returned: every pipeline is over; the workbook is written and saved
Main_Export ==
    /\ mpc = "gather"
    /\ \A p \in Tasks : pc[p] \in {"finished", "returned"}
    /\ exported' = [rows |-> [n \in 1..Len(all_tweet_data) |-> ExportRow(all_tweet_data[n])],
                    authors |-> unique_authors]
    /\ mpc' = "saved"
    /\ UNCHANGED <<url_file, site, target_urls, cookies_json, context_cookies, shared, pc,
                   setup_result, page, loopv, art>>

\* -------------------------------------------------------- get_illustration
\* a variant whose handlers log the error and do not return
OnSetupFailureFallsThrough(next) == next

\* the return of each handler around the cookie load and around page.goto
OnSetupFailure(next) == "returned"

\* the cookie load: cookies.json is read and handed to the context
LoadCookies(p) ==
    /\ pc[p] = "cookies"
    /\ \E r \in {"ok", "FileNotFoundError", "JSONDecodeError", "Exception"} :
          /\ setup_result' = [setup_result EXCEPT ![p] = IF r = "ok" THEN "cookies" ELSE r]
          /\ pc' = [pc EXCEPT ![p] = IF r = "ok" THEN "new_page"
                                     ELSE OnSetupFailure("new_page")]
          /\ context_cookies' = IF r = "ok" THEN add_cookies(context_cookies, cookies_json)
                                ELSE context_cookies
    /\ UNCHANGED <<url_file, site, mpc, target_urls, exported, cookies_json, shared, page,
                   loopv, art>>

\* page = await context.new_page()
NewPage(p) ==
    /\ pc[p] = "new_page"
    /\ page' = [page EXCEPT ![p] = "open"]
    /\ pc' = [pc EXCEPT ![p] = "goto"]
    /\ UNCHANGED <<mainv, shared, setup_result, loopv, art>>

\* page.goto: on a timeout or any other error the page is closed and the
\* pipeline returns
Goto(p) ==
    /\ pc[p] = "goto"
    /\ \E r \in {"ok", "TimeoutError", "Exception"} :
          /\ setup_result' = [setup_result EXCEPT ![p] = r]
          /\ page' = [page EXCEPT ![p] = IF r = "ok" THEN "open" ELSE "closed"]
          /\ pc' = [pc EXCEPT ![p] = IF r = "ok" THEN "scroll"
                                     ELSE OnSetupFailure("scroll")]
    /\ UNCHANGED <<mainv, shared, loopv, art>>

\* top of the for loop: scroll to the bottom, then the settle delay
Scroll(p) ==
    /\ pc[p] = "scroll"
    /\ scrolled' = [scrolled EXCEPT ![p] = @ + 1]
    /\ pc' = [pc EXCEPT ![p] = "wait"]
    /\ UNCHANGED <<mainv, shared, setup_result, page, x, wait_result,
                   processed_tweet_urls, articles, i, processed_this_scroll, art>>

\* a variant that goes on to the next pass after a failed wait (continue)
OnWaitFailureContinues == "endpass"

\* except (TimeoutError, AssertionError): break
OnWaitFailure == "closing"

\* the bounded wait for a visible article, then articles.count(): a timeout, an
\* assertion failure or a count of 0 breaks out of the loop
WaitForArticles(p) ==
    /\ pc[p] = "wait"
    /\ \E r \in {"visible", "TimeoutError", "AssertionError"} :
       \E snap \in (IF r = "visible" THEN Snapshots(p) ELSE {<<>>}) :
          /\ wait_result' = [wait_result EXCEPT ![p] = r]
          /\ articles' = [articles EXCEPT ![p] = snap]
          /\ pc' = [pc EXCEPT ![p] = IF r # "visible" THEN OnWaitFailure
                                     ELSE IF snap = <<>> THEN "closing"
                                     ELSE "article"]
    /\ i' = [i EXCEPT ![p] = 0]
    /\ processed_this_scroll' = [processed_this_scroll EXCEPT ![p] = 0]
    /\ UNCHANGED <<mainv, shared, setup_result, page, scrolled, x,
                   processed_tweet_urls, art>>

\* publish_url = "https://x.com" + publish_url_suffix
publish_url_of(b) == Origin \o b.href

\* a variant with one dedup set for all pipelines
AcceptedSharedDedup(p, b) ==
    /\ ~b.ad
    /\ b.time
    /\ b.href # <<>>
    /\ \A q \in Tasks : publish_url_of(b) \notin processed_tweet_urls[q]

\* a variant without the advertisement test
AcceptedWithAds(p, b) ==
    /\ b.time
    /\ b.href # <<>>
    /\ publish_url_of(b) \notin processed_tweet_urls[p]

\* a variant without the dedup test
AcceptedNoDedup(p, b) == ~b.ad /\ b.time /\ b.href # <<>>

\* the block is a content item this pipeline has not accepted before
Accepted(p, b) ==
    /\ ~b.ad
    /\ b.time
    /\ b.href # <<>>
    /\ publish_url_of(b) \notin processed_tweet_urls[p]

\* the for loop over the snapshot moves on: next article, or the end of the pass
AfterArticle(p) == IF i[p] + 1 < Len(articles[p]) THEN "article" ELSE "endpass"

\* a variant whose handler sits outside the for loop: an error ends the pass
OnArticleErrorEndsPass(p) == "endpass"

\* except (TimeoutError, AssertionError) / except Exception, inside the for
\* loop: the error is logged and the loop goes on with the next article
OnArticleError(p) == AfterArticle(p)

\* after the author registration: the record of an item without images, or
\* the first image
EmitStage(images) == IF images = <<>> THEN "append_lock" ELSE "fetch"

\* tweet_data once time, content and author are filled in
TweetOf(p, b) ==
    LET a == AuthorOf(b.user, target_urls[p])
    IN  [task_name |-> async_name(p), publish_time |-> strftime(b.datetime),
         author |-> AuthorLabel(a), author_profile_url |-> a.profile,
         publish_url |-> publish_url_of(b), publish_content |-> strip(b.text),
         image_url |-> <<>>, local_image_path |-> <<>>]

\* one article of the snapshot, from the visibility check to the author fields:
\* r is what the two locator calls do
ProcessArticle(p) ==
    /\ pc[p] = "article"
    /\ \E r \in {"ok", "AssertionError", "TimeoutError"} :
       LET b == articles[p][i[p] + 1]
           a == AuthorOf(b.user, target_urls[p])
           images == publish_images_of(b.photo)
           item == r = "ok" /\ Accepted(p, b)
           parsed == item /\ strptime_ok(b.datetime)
       IN  /\ processed_tweet_urls' =
                 [processed_tweet_urls EXCEPT ![p] =
                     IF item THEN @ \cup {publish_url_of(b)} ELSE @]
           /\ processed_this_scroll' =
                 [processed_this_scroll EXCEPT ![p] = IF item THEN @ + 1 ELSE @]
           /\ art' = [art EXCEPT ![p] =
                 IF parsed
                 THEN [tweet_data |-> TweetOf(p, b), author_name |-> a.name,
                       author |-> AuthorLabel(a), publish_images |-> images,
                       k |-> IF images = <<>> THEN 0 ELSE 1,
                       current_image_data |-> EmptyTweet(0), download |-> "none"]
                 ELSE NoArt]
           /\ pc' = [pc EXCEPT ![p] =
                 IF r # "ok" \/ (item /\ ~parsed) THEN OnArticleError(p)
                 ELSE IF ~item THEN AfterArticle(p)
                 ELSE IF a.name # <<>> /\ a.profile # <<>> THEN "author_lock"
                 ELSE EmitStage(images)]
           /\ i' = [i EXCEPT ![p] = IF parsed THEN @ ELSE @ + 1]
    /\ UNCHANGED <<mainv, shared, setup_result, page, scrolled, x, wait_result, articles>>

\* a variant that enters the guarded section without waiting for the lock
AcquireNoWait(p) ==
    /\ pc[p] \in {"author_lock", "append_lock", "img_lock"}
    /\ data_lock' = TRUE
    /\ pc' = [pc EXCEPT ![p] = CASE pc[p] = "author_lock" -> "author_cs"
                                  [] pc[p] = "append_lock" -> "append_cs"
                                  [] pc[p] = "img_lock" -> "img_cs"]
    /\ UNCHANGED <<mainv, all_tweet_data, unique_authors, files, dirs, setup_result,
                   page, loopv, art>>

\* async with data_lock: the pipeline goes on only once the lock is free
Acquire(p) ==
    /\ pc[p] \in {"author_lock", "append_lock", "img_lock"}
    /\ ~data_lock
    /\ data_lock' = TRUE
    /\ pc' = [pc EXCEPT ![p] = CASE pc[p] = "author_lock" -> "author_cs"
                                  [] pc[p] = "append_lock" -> "append_cs"
                                  [] pc[p] = "img_lock" -> "img_cs"]
    /\ UNCHANGED <<mainv, all_tweet_data, unique_authors, files, dirs, setup_result,
                   page, loopv, art>>

\* a variant that leaves the dictionary as it is
registerNever(d, name, url) == d

\* a variant without the membership test: the last writer wins
registerOverwrites(d, name, url) ==
    IF InAuthors(d, name)
    THEN [n \in 1..Len(d) |-> IF d[n].name = name THEN [name |-> name, url |-> url] ELSE d[n]]
    ELSE Append(d, [name |-> name, url |-> url])

\* if author_name not in unique_authors: unique_authors[author_name] = url
register(d, name, url) ==
    IF InAuthors(d, name) THEN d ELSE Append(d, [name |-> name, url |-> url])

\* the guarded author registration, then the lock is released
RegisterAuthor(p) ==
    /\ pc[p] = "author_cs"
    /\ unique_authors' =
          register(unique_authors, art[p].author_name, art[p].tweet_data.author_profile_url)
    /\ data_lock' = FALSE
    /\ pc' = [pc EXCEPT ![p] = EmitStage(art[p].publish_images)]
    /\ UNCHANGED <<mainv, all_tweet_data, files, dirs, setup_result, page, loopv, art>>

\* an item without images: the guarded append of a copy of tweet_data
AppendTweet(p) ==
    /\ pc[p] = "append_cs"
    /\ all_tweet_data' = Append(all_tweet_data, art[p].tweet_data)
    /\ data_lock' = FALSE
    /\ pc' = [pc EXCEPT ![p] = AfterArticle(p)]
    /\ i' = [i EXCEPT ![p] = @ + 1]
    /\ art' = [art EXCEPT ![p] = NoArt]
    /\ UNCHANGED <<mainv, unique_authors, files, dirs, setup_result, page, scrolled, x,
                   wait_result, processed_tweet_urls, articles, processed_this_scroll>>

\* current_image_data: the copy of tweet_data with the two image fields set
ImageRecord(tweet_data, author, image_url) ==
    [tweet_data EXCEPT !.image_url = image_url,
                       !.local_image_path = abspath(local_image_path(author, image_url))]

\* a variant that appends the record only after a download that succeeded
AfterDownloadDropsFailed(r) == IF r = "ok" THEN "img_lock" ELSE "fetch"

\* try / except / finally around the download: whatever the download did, the
\* finally clause appends the record
AfterDownload(r) == "img_lock"

\* a variant of the image loop that stops after the first image
MoreImagesNever(p) == FALSE

\* for image_url in publish_images: another image is left
MoreImages(p) == art[p].k < Len(art[p].publish_images)

\* a variant without the existence test before os.makedirs
NeedsMakedirsAlways(ds, d) == TRUE

\* if not os.path.exists(author_image_dir)
NeedsMakedirs(ds, d) == d \notin ds

\* one image of the item, up to the finally clause: the author directory is
\* made, the record is built, and the download (r) writes the file or fails.
\* An img without src makes image_url.rfind raise, which ends the article, and
\* so does os.makedirs on a directory that exists.  The existence test and
\* os.makedirs are in this one step: no await lies between them.
FetchImage(p) ==
    /\ pc[p] = "fetch"
    /\ LET image_url == art[p].publish_images[art[p].k]
       IN  IF \/ image_url = None
              \/ /\ NeedsMakedirs(dirs, author_image_dir(art[p].author))
                 /\ author_image_dir(art[p].author) \in dirs
           THEN /\ pc' = [pc EXCEPT ![p] = OnArticleError(p)]
                /\ i' = [i EXCEPT ![p] = @ + 1]
                /\ art' = [art EXCEPT ![p] = NoArt]
                /\ UNCHANGED <<files, dirs>>
           ELSE \E r \in {"ok", "RequestError", "HTTPStatusError", "Exception"} :
                /\ dirs' = dirs \cup {author_image_dir(art[p].author)}
                /\ files' = IF r = "ok"
                            THEN files \cup {local_image_path(art[p].author, image_url)}
                            ELSE files
                /\ art' = [art EXCEPT ![p].current_image_data =
                              ImageRecord(art[p].tweet_data, art[p].author, image_url),
                                      ![p].download = r]
                /\ pc' = [pc EXCEPT ![p] = AfterDownload(r)]
                /\ i' = i
    /\ UNCHANGED <<mainv, all_tweet_data, unique_authors, data_lock, setup_result, page,
                   scrolled, x, wait_result, processed_tweet_urls, articles,
                   processed_this_scroll>>

\* finally: the guarded append of the image's record; then the next image, or
\* the next article
AppendImage(p) ==
    /\ pc[p] = "img_cs"
    /\ all_tweet_data' = Append(all_tweet_data, art[p].current_image_data)
    /\ data_lock' = FALSE
    /\ IF MoreImages(p)
       THEN /\ art' = [art EXCEPT ![p].k = @ + 1,
                                  ![p].current_image_data = EmptyTweet(0),
                                  ![p].download = "none"]
            /\ pc' = [pc EXCEPT ![p] = "fetch"]
            /\ i' = i
       ELSE /\ art' = [art EXCEPT ![p] = NoArt]
            /\ pc' = [pc EXCEPT ![p] = AfterArticle(p)]
            /\ i' = [i EXCEPT ![p] = @ + 1]
    /\ UNCHANGED <<mainv, unique_authors, files, dirs, setup_result, page, scrolled, x,
                   wait_result, processed_tweet_urls, articles, processed_this_scroll>>

\* a variant that also stalls on a first pass without a new item
StallsOnAnyPass(p) == processed_this_scroll[p] = 0

\* if processed_this_scroll == 0 and x > 0: break
StallsAfterPass(p) == processed_this_scroll[p] = 0 /\ x[p] > 0

\* a variant of the loop without the cap (while True)
PassesLeftAlways(p) == TRUE

\* for x in range(999): another pass index is left
PassesLeft(p) == x[p] + 1 < ScrollCap

\* the end of one pass: break on a pass without a new item (not the first
\* pass), leave the loop when range(999) is used up, else the next pass
EndPass(p) ==
    /\ pc[p] = "endpass"
    /\ IF StallsAfterPass(p) \/ ~PassesLeft(p)
       THEN /\ pc' = [pc EXCEPT ![p] = "closing"]
            /\ x' = x
       ELSE /\ pc' = [pc EXCEPT ![p] = "scroll"]
            /\ x' = [x EXCEPT ![p] = @ + 1]
    /\ articles' = [articles EXCEPT ![p] = <<>>]
    /\ UNCHANGED <<mainv, shared, setup_result, page, scrolled, wait_result,
                   processed_tweet_urls, i, processed_this_scroll, art>>

\* await page.close(), after the loop; the pipeline returns
ClosePage(p) ==
    /\ pc[p] = "closing"
    /\ page' = [page EXCEPT ![p] = "closed"]
    /\ pc' = [pc EXCEPT ![p] = "finished"]
    /\ UNCHANGED <<mainv, shared, setup_result, loopv, art>>

\* ------------------------------------------------------------ interruption
\* where a pipeline waits for the browser, the timer or the network; between
\* two of these places it runs without giving up control
AwaitStates == {"cookies", "new_page", "goto", "scroll", "wait", "article", "fetch", "closing"}

\* the pipeline is over: it has returned or run off its end
Terminal == {"finished", "returned"}

\* the pipeline waits for the download of an image
Downloading(p) ==
    /\ pc[p] = "fetch"
    /\ art[p].publish_images[art[p].k] # None

\* what the finally clauses of the downloads in flight of pipelines 1..n
\* append when the pipelines are cancelled, in task order
RECURSIVE CancelledAppends(_)
CancelledAppends(n) ==
    IF n = 0 THEN <<>>
    ELSE CancelledAppends(n - 1) \o
         (IF Downloading(n)
          THEN <<ImageRecord(art[n].tweet_data, art[n].author,
                             art[n].publish_images[art[n].k])>>
          ELSE <<>>)

\* KeyboardInterrupt while main() awaits gather: asyncio.run cancels main()
\* and with it every pipeline that is not over; CancelledError passes every
\* except clause, runs the finally clause of a download in flight, and leaves
\* main() at the await, before the export; __main__ catches the interrupt
Interrupt ==
    /\ mpc = "gather"
    /\ \A p \in Tasks : pc[p] \in AwaitStates \cup Terminal
    /\ mpc' = "interrupted"
    /\ pc' = [p \in Tasks |-> IF pc[p] \in Terminal THEN pc[p] ELSE "cancelled"]
    /\ all_tweet_data' = all_tweet_data \o CancelledAppends(Len(pc))
    /\ dirs' = dirs \cup {author_image_dir(art[p].author) : p \in {q \in Tasks : Downloading(q)}}
    /\ UNCHANGED <<url_file, site, target_urls, exported, cookies_json, context_cookies,
                   unique_authors, data_lock, files, setup_result, page, loopv, art>>

\* ------------------------------------------------- errors outside any try
\* context.new_page() raises: the call is outside any try, the error leaves
\* get_illustration
NewPageRaises(p) ==
    /\ pc[p] = "new_page"
    /\ pc' = [pc EXCEPT ![p] = "raised"]
    /\ UNCHANGED <<mainv, shared, setup_result, page, loopv, art>>

\* page.evaluate(scrollTo) raises: the call is outside any try
ScrollRaises(p) ==
    /\ pc[p] = "scroll"
    /\ pc' = [pc EXCEPT ![p] = "raised"]
    /\ UNCHANGED <<mainv, shared, setup_result, page, loopv, art>>

\* articles.count() raises after the wait: the call is outside any try
CountRaises(p) ==
    /\ pc[p] = "wait"
    /\ wait_result' = [wait_result EXCEPT ![p] = "visible"]
    /\ pc' = [pc EXCEPT ![p] = "raised"]
    /\ UNCHANGED <<mainv, shared, setup_result, page, scrolled, x, processed_tweet_urls,
                   articles, i, processed_this_scroll, art>>

\* asyncio.gather without return_exceptions hands the first error of a
\* pipeline to main(), which leaves through the async with, before the
\* export; asyncio.run then cancels the pipelines that are still running
Main_GatherRaises ==
    /\ mpc = "gather"
    /\ \E p \in Tasks : pc[p] = "raised"
    /\ \A p \in Tasks : pc[p] \in AwaitStates \cup Terminal \cup {"raised"}
    /\ mpc' = "crashed"
    /\ pc' = [p \in Tasks |-> IF pc[p] \in Terminal \cup {"raised"} THEN pc[p] ELSE "cancelled"]
    /\ all_tweet_data' = all_tweet_data \o CancelledAppends(Len(pc))
    /\ dirs' = dirs \cup {author_image_dir(art[p].author) : p \in {q \in Tasks : Downloading(q)}}
    /\ UNCHANGED <<url_file, site, target_urls, exported, cookies_json, context_cookies,
                   unique_authors, data_lock, files, setup_result, page, loopv, art>>

\* ---------------------------------------------------------- specifications
Next ==
    \/ Main_Start
    \/ Main_Export
    \/ \E p \in Tasks : LoadCookies(p)
    \/ \E p \in Tasks : NewPage(p)
    \/ \E p \in Tasks : Goto(p)
    \/ \E p \in Tasks : Scroll(p)
    \/ \E p \in Tasks : WaitForArticles(p)
    \/ \E p \in Tasks : ProcessArticle(p)
    \/ \E p \in Tasks : Acquire(p)
    \/ \E p \in Tasks : RegisterAuthor(p)
    \/ \E p \in Tasks : AppendTweet(p)
    \/ \E p \in Tasks : FetchImage(p)
    \/ \E p \in Tasks : AppendImage(p)
    \/ \E p \in Tasks : EndPass(p)
    \/ \E p \in Tasks : ClosePage(p)

TwoTargets == [exists |-> TRUE, lines |-> <<TargetAlice, TargetBob>>]

OneTarget == [exists |-> TRUE, lines |-> <<<<"not-a-url">>, TargetAlice, <<>>>>]

\* two concurrent pipelines on a site with two items of one author name
Init ==
    InitWith({TwoTargets},
             {[blocks |-> {TweetA, TweetB}, longest |-> MaxShared, endless |-> FALSE]})

Spec == Init /\ [][Next]_vars

\* one pipeline on a site that shows every kind of block
InitOne ==
    InitWith({OneTarget},
             {[blocks |-> {TweetA, TweetB, TweetTwoImages, TweetBadTime, AdBlock},
               longest |-> MaxArticles, endless |-> FALSE]})

SpecOne == InitOne /\ [][Next]_vars

\* one pipeline on a site that reveals a new item in every pass
InitCap == InitWith({OneTarget}, {[blocks |-> {}, longest |-> 1, endless |-> TRUE]})

\* the steps such a site leads to: its items have no author spans and no images
NextCap ==
    \/ Main_Start
    \/ Main_Export
    \/ \E p \in Tasks : LoadCookies(p)
    \/ \E p \in Tasks : NewPage(p)
    \/ \E p \in Tasks : Goto(p)
    \/ \E p \in Tasks : Scroll(p)
    \/ \E p \in Tasks : WaitForArticles(p)
    \/ \E p \in Tasks : ProcessArticle(p)
    \/ \E p \in Tasks : Acquire(p)
    \/ \E p \in Tasks : AppendTweet(p)
    \/ \E p \in Tasks : EndPass(p)
    \/ \E p \in Tasks : ClosePage(p)

SpecCap == InitCap /\ [][NextCap]_vars

\* the lines a target file is made of: blank, whitespace only, text that is
\* no URL, a URL, a URL with whitespace around it
LineKinds == {<<>>, <<" ", " ">>, <<"not-a-url">>, TargetAlice, <<" ">> \o TargetBob \o <<" ">>}

MixedTargets ==
    [exists |-> TRUE,
     lines |-> <<<<" ">> \o TargetBob \o <<" ">>, <<"not-a-url">>, <<>>, TargetAlice>>]

TargetFiles ==
    {[exists |-> FALSE, lines |-> <<>>], MixedTargets}
    \cup {[exists |-> TRUE, lines |-> l] : l \in SeqUpTo(LineKinds, MaxLines)}

\* the values the sameSite key of an exported cookie takes, "absent" for an
\* entry without the key
SameSiteKinds ==
    {"absent", "null", "strict", "Strict", "lax", "Lax", "none", "None",
     "no_restriction", "unspecified"}

Cookie(n, v, kind) ==
    IF kind = "absent" THEN [name |-> n, value |-> v]
    ELSE [name |-> n, value |-> v, sameSite |-> kind]

CookieFiles ==
    {<<Cookie("auth_token", "t1", k)>> : k \in SameSiteKinds}
    \cup {<<Cookie("auth_token", "t1", "unspecified"), Cookie("ct0", "c1", "strict"),
            Cookie("lang", "en", "absent")>>}

\* every target file and every cookie file, on a site that shows no article
InitSetup ==
    InitWithCookies(TargetFiles, {[blocks |-> {}, longest |-> 0, endless |-> FALSE]},
                    CookieFiles)

\* the steps of such a run: no pass enumerates an article
NextSetup ==
    \/ Main_Start
    \/ Main_Export
    \/ \E p \in Tasks : LoadCookies(p)
    \/ \E p \in Tasks : NewPage(p)
    \/ \E p \in Tasks : Goto(p)
    \/ \E p \in Tasks : Scroll(p)
    \/ \E p \in Tasks : WaitForArticles(p)
    \/ \E p \in Tasks : ClosePage(p)

SpecSetup == InitSetup /\ [][NextSetup]_vars

\* ---- one pipeline, one kind of block per site, every kind of block
\* the span texts of a User-Name container: a display name and two handles
SpanTexts == {Jane, <<"@", "a">>, <<"@", "b">>}

\* an item without image for every span sequence of up to three spans
AuthorBlocks == {Block(sp, <<"/", "s1">>, <<>>, GoodTime) : sp \in SeqUpTo(SpanTexts, 3)}

\* an image URL without a query string
ImgNoQuery == <<"pbs", "/", "media", "/", "i", "m", "g", "3">>

\* an image URL with a "/" inside its query string
ImgSlashInQuery == <<"pbs", "/", "img4", "?", "u", "=", "a", "/", "b">>

\* an item with images for every kind of image list; None is an img without src
ImageBlocks ==
    {Block(<<Jane, <<"@", "a">>>>, <<"/", "s1">>, photo, GoodTime) :
        photo \in {<<ImgOne>>, <<ImgNoQuery>>, <<ImgSlashInQuery>>, <<ImgOne, None>>,
                   <<None>>, <<ImgOne, ImgTwo>>}}

NoTimeBlock == [TweetA EXCEPT !.time = FALSE]

NoHrefBlock == [TweetA EXCEPT !.href = <<>>]

\* a profile URL with a query string, the bare origin, a URL of another site
TargetQuery == ProfilePrefix \o <<"alice", "?", "lang">>

TargetRoot == ProfilePrefix

TargetOther == <<"https:", "/", "/", "example.org", "/", "carol">>

ParseTargets ==
    {[exists |-> TRUE, lines |-> <<u>>] : u \in {TargetAlice, TargetQuery, TargetRoot, TargetOther}}

ParseSites ==
    {[blocks |-> {b}, longest |-> MaxArticles, endless |-> FALSE] :
        b \in AuthorBlocks \cup ImageBlocks \cup {TweetBadTime}}
    \cup {[blocks |-> {AdBlock, NoTimeBlock, NoHrefBlock}, longest |-> MaxArticles,
           endless |-> FALSE]}

InitParse == InitWith(ParseTargets, ParseSites)

SpecParse == InitParse /\ [][Next]_vars

\* the two-pipeline runs, with an interrupt from the keyboard at any await
NextInterrupt == Next \/ Interrupt

SpecInterrupt == Init /\ [][NextInterrupt]_vars

\* the two-pipeline runs, with the errors of the calls outside any try
NextRaise ==
    \/ Next
    \/ \E p \in Tasks : NewPageRaises(p)
    \/ \E p \in Tasks : ScrollRaises(p)
    \/ \E p \in Tasks : CountRaises(p)
    \/ Main_GatherRaises

SpecRaise == Init /\ [][NextRaise]_vars

\* the event loop runs every task that is ready
FairSpec == Spec /\ WF_vars(Next)

FairSpecOne == SpecOne /\ WF_vars(Next)

FairSpecCap == SpecCap /\ WF_vars(NextCap)

\* the pipelines of the one-target runs and of the two-target runs
OnePipeline == DOMAIN read_urls_from_file(OneTarget)

TwoPipelines == DOMAIN read_urls_from_file(TwoTargets)

\* ------------------------------------------------------------- properties
\* the records of pipeline p for permalink u, in the order of their append
RecordsOf(p, u) ==
    SelectSeq(all_tweet_data, LAMBDA r : r.task_name = async_name(p) /\ r.publish_url = u)

\* the step is one of pipeline p
StepOf(p) == pc'[p] # pc[p] \/ i'[p] # i[p] \/ art'[p] # art[p] \/ x'[p] # x[p]

\* a record without its two image fields
NonImageFields(r) == [r EXCEPT !.image_url = <<>>, !.local_image_path = <<>>]

\* the block the pipeline is about to look at
CurrentBlock(p) == articles[p][i[p] + 1]

\* C1: once a permalink is in a pipeline's dedup set, an observation of a block
\* with that permalink (in the same pass or a later one) skips the block: the
\* dedup set, the count of new items and the result list stay as they are and
\* the loop moves to the next block; and the records of a permalink of the
\* dedup set change only while its own item is being emitted.
C1_DedupIdempotent ==
    [][\A p \in Tasks :
        /\ ( /\ pc[p] = "article"
             /\ StepOf(p)
             /\ CurrentBlock(p).time
             /\ CurrentBlock(p).href # <<>>
             /\ publish_url_of(CurrentBlock(p)) \in processed_tweet_urls[p] )
           => /\ processed_tweet_urls'[p] = processed_tweet_urls[p]
              /\ processed_this_scroll'[p] = processed_this_scroll[p]
              /\ all_tweet_data' = all_tweet_data
              /\ art'[p] = NoArt
              /\ i'[p] = i[p] + 1
              /\ pc'[p] \in {"article", "endpass"}
        /\ \A u \in processed_tweet_urls[p] :
              u # art[p].tweet_data.publish_url => RecordsOf(p, u)' = RecordsOf(p, u)
      ]_vars

\* C1 witness: in a pass after the first, a block whose permalink was accepted
\* earlier was observed again and skipped; its one record is still the only one
C1_Witness ==
    \E p \in Tasks :
        /\ pc[p] = "endpass"
        /\ x[p] > 0
        /\ articles[p] = <<TweetB, TweetB>>
        /\ processed_this_scroll[p] = 0
        /\ Len(RecordsOf(p, publish_url_of(TweetB))) = 1

\* a block with a time element in the expected format, a permalink and image
\* elements that all carry a src
WellFormed(b) ==
    /\ ~b.ad
    /\ b.time
    /\ b.href # <<>>
    /\ strptime_ok(b.datetime)
    /\ \A n \in 1..Len(b.photo) : b.photo[n] # None

\* C2: an accepted well-formed block with N image URLs has, once its
\* processing is over, exactly N records in the result list when N > 0 (one
\* per image, in order) and exactly one record with both image fields empty
\* when N = 0; all of them agree on every non-image field.
C2_RecordsPerItem ==
    \A p \in Tasks : \A b \in site.blocks :
        ( /\ WellFormed(b)
          /\ publish_url_of(b) \in processed_tweet_urls[p]
          /\ art[p].tweet_data.publish_url # publish_url_of(b) )
        => LET recs == RecordsOf(p, publish_url_of(b))
               imgs == publish_images_of(b.photo)
           IN  /\ Len(recs) = IF imgs = <<>> THEN 1 ELSE Len(imgs)
               /\ \A n \in 1..Len(recs) :
                     /\ NonImageFields(recs[n]) = TweetOf(p, b)
                     /\ IF imgs = <<>>
                        THEN recs[n].image_url = <<>> /\ recs[n].local_image_path = <<>>
                        ELSE recs[n].image_url = imgs[n] /\ recs[n].local_image_path # <<>>

\* C2 witness: an item with two images has its two records and an item without
\* images its single record
C2_Witness ==
    \E p \in Tasks :
        /\ art[p] = NoArt
        /\ Len(RecordsOf(p, publish_url_of(TweetTwoImages))) = 2
        /\ Len(RecordsOf(p, publish_url_of(TweetB))) = 1

\* C3: at the end of an extraction pass the loop is left exactly when no item
\* was newly accepted in a pass after the first, or the passes are used up;
\* otherwise the next pass starts with a scroll.  Once the loop is left no
\* scroll is issued any more.
C3_StallRule ==
    [][\A p \in Tasks :
        /\ (pc[p] = "endpass" /\ StepOf(p))
           => /\ pc'[p] = "closing"
                   <=> ((processed_this_scroll[p] = 0 /\ x[p] > 0) \/ x[p] = ScrollCap - 1)
              /\ pc'[p] # "closing" => (pc'[p] = "scroll" /\ x'[p] = x[p] + 1)
              /\ scrolled'[p] = scrolled[p]
        /\ pc[p] = "scroll" => (StepOf(p) => scrolled'[p] = scrolled[p] + 1)
        /\ pc[p] \in {"closing", "finished"}
           => scrolled'[p] = scrolled[p] /\ pc'[p] \in {"closing", "finished"}
      ]_vars

\* C3 witness: a first pass without a new item was followed by a second scroll,
\* and the second pass, again without a new item, ended the loop
C3_Witness ==
    \E p \in Tasks :
        /\ pc[p] = "closing"
        /\ wait_result[p] = "visible"
        /\ x[p] = 1
        /\ scrolled[p] = 2
        /\ processed_this_scroll[p] = 0
        /\ processed_tweet_urls[p] = {}

\* the states of a pipeline inside the for loop over the snapshot
ArticleStates ==
    {"article", "author_lock", "author_cs", "append_lock", "append_cs",
     "fetch", "img_lock", "img_cs"}

WaitFailed(p) == p \in Tasks /\ wait_result[p] \in {"TimeoutError", "AssertionError"}

FinishedClosed(p) == p \in Tasks /\ pc[p] = "finished" /\ page[p] = "closed"

\* C4: when the wait for a visible article ends in a timeout or an assertion
\* failure, the pipeline leaves the loop at once: no block of that pass is
\* extracted, no further scroll is issued, no record is added or lost, and the
\* pipeline closes its page and finishes.
C4_WaitFailureStalls ==
    /\ [](\A p \in Tasks : WaitFailed(p) =>
            /\ pc[p] \in {"closing", "finished"}
            /\ articles[p] = <<>> /\ i[p] = 0 /\ processed_this_scroll[p] = 0
            /\ art[p] = NoArt
            /\ scrolled[p] = x[p] + 1
            /\ (pc[p] = "finished" => page[p] = "closed"))
    /\ [][\A p \in Tasks :
            (WaitFailed(p)' /\ StepOf(p)) => all_tweet_data' = all_tweet_data]_vars
    /\ \A p \in OnePipeline : WaitFailed(p) ~> FinishedClosed(p)

\* C4 witness: the wait of the second pass timed out; the record of the first
\* pass is in the result list and the page is closed
C4_Witness ==
    \E p \in Tasks :
        /\ wait_result[p] = "TimeoutError"
        /\ x[p] = 1
        /\ pc[p] = "finished"
        /\ page[p] = "closed"
        /\ Len(RecordsOf(p, publish_url_of(TweetB))) = 1

\* C5: the pass index never reaches the cap of 999 and no more than 999
\* scrolls are issued, however many new items the site reveals; a pipeline
\* that finishes has closed its page; and every pipeline ends.
C5_CapTerminates ==
    /\ [](\A p \in Tasks :
            /\ x[p] < ScrollCap
            /\ scrolled[p] <= ScrollCap
            /\ (pc[p] = "finished" => page[p] = "closed"))
    /\ <>(mpc # "start" /\ \A p \in Tasks : pc[p] \in {"finished", "returned"})

\* C5 witness: the last pass of the 999 still accepted a new item, and the
\* pipeline closed its page and finished
C5_Witness ==
    \E p \in Tasks :
        /\ pc[p] = "finished"
        /\ page[p] = "closed"
        /\ x[p] = ScrollCap - 1
        /\ scrolled[p] = ScrollCap
        /\ processed_this_scroll[p] = 1

\* C6: a block whose processing fails does not end the pass: the for loop is
\* left only after the last block of the snapshot, every step inside it stays
\* in the pass, and after a block with a malformed timestamp the loop is at
\* the next block.
C6_ErrorsStayInPass ==
    /\ [](\A p \in Tasks : pc[p] = "endpass" => i[p] = Len(articles[p]))
    /\ [][\A p \in Tasks :
            /\ (pc[p] \in ArticleStates /\ StepOf(p))
               => /\ pc'[p] \in ArticleStates \cup {"endpass"}
                  /\ i'[p] \in {i[p], i[p] + 1}
                  /\ articles'[p] = articles[p]
                  /\ x'[p] = x[p]
            /\ ( /\ pc[p] = "article"
                 /\ StepOf(p)
                 /\ Accepted(p, CurrentBlock(p))
                 /\ ~strptime_ok(CurrentBlock(p).datetime) )
               => /\ i'[p] = i[p] + 1
                  /\ pc'[p] = IF i[p] + 1 < Len(articles[p]) THEN "article" ELSE "endpass"
       ]_vars

\* C6 witness: in one pass the block with the malformed timestamp left no
\* record and the block after it was processed and has its record
C6_Witness ==
    \E p \in Tasks :
        /\ pc[p] = "endpass"
        /\ x[p] = 0
        /\ articles[p] = <<TweetBadTime, TweetB>>
        /\ publish_url_of(TweetBadTime) \in processed_tweet_urls[p]
        /\ RecordsOf(p, publish_url_of(TweetBadTime)) = <<>>
        /\ Len(RecordsOf(p, publish_url_of(TweetB))) = 1

DownloadFailed(p) == art[p].download \in {"RequestError", "HTTPStatusError", "Exception"}

\* C7: after a failed download the pipeline is on its way to the append of that
\* image's record, which carries the intended destination path and is not yet
\* in the result list; the append adds exactly that record once, and the
\* pipeline goes on with the next image or, after the last, the next block.
C7_FailedImageKept ==
    /\ [](\A p \in Tasks : DownloadFailed(p) =>
            LET image_url == art[p].publish_images[art[p].k]
            IN  /\ pc[p] \in {"img_lock", "img_cs"}
                /\ art[p].current_image_data.image_url = image_url
                /\ art[p].current_image_data.local_image_path =
                      abspath(author_image_dir(art[p].author) \o <<"/">>
                              \o image_name(image_url) \o <<".jpg">>)
                /\ Len(RecordsOf(p, art[p].tweet_data.publish_url)) = art[p].k - 1)
    /\ [][\A p \in Tasks :
            (pc[p] = "img_cs" /\ DownloadFailed(p) /\ StepOf(p))
            => /\ all_tweet_data' = Append(all_tweet_data, art[p].current_image_data)
               /\ IF art[p].k < Len(art[p].publish_images)
                  THEN pc'[p] = "fetch" /\ art'[p].k = art[p].k + 1 /\ i'[p] = i[p]
                  ELSE pc'[p] \in {"article", "endpass"} /\ i'[p] = i[p] + 1
       ]_vars

\* C7 witness: the first image of an item failed to download, its record is in
\* the result list with a path no file is at, and the second image is next
C7_Witness ==
    \E p \in Tasks :
        /\ pc[p] = "fetch"
        /\ art[p].k = 2
        /\ Len(RecordsOf(p, art[p].tweet_data.publish_url)) = 1
        /\ \A f \in files :
              abspath(f) # RecordsOf(p, art[p].tweet_data.publish_url)[1].local_image_path

\* the guarded sections: between the acquire and the release of data_lock
GuardedStates == {"author_cs", "append_cs", "img_cs"}

\* C8: an entry of the author dictionary is never changed, moved or removed;
\* a name has at most one entry; and a guarded registration adds the entry of
\* its pipeline exactly when the name has none, so the entry of a name is the
\* profile URL of the first pipeline that ran the guarded section for it.
C8_FirstWriteWins ==
    /\ [](\A m, n \in 1..Len(unique_authors) :
            unique_authors[m].name = unique_authors[n].name => m = n)
    /\ [][/\ Len(unique_authors') >= Len(unique_authors)
          /\ \A n \in 1..Len(unique_authors) : unique_authors'[n] = unique_authors[n]
          /\ \A p \in Tasks :
                (pc[p] = "author_cs" /\ StepOf(p))
                => unique_authors' =
                      IF InAuthors(unique_authors, art[p].author_name)
                      THEN unique_authors
                      ELSE Append(unique_authors,
                                  [name |-> art[p].author_name,
                                   url |-> art[p].tweet_data.author_profile_url])
       ]_vars

\* C8 witness: two pipelines have each emitted an item of the author name Jane,
\* with different profile URLs; the dictionary has the one entry of the
\* pipeline that registered first, and the other registration is over
C8_Witness ==
    \E p, q \in Tasks :
        /\ processed_tweet_urls[p] = {publish_url_of(TweetA)}
        /\ processed_tweet_urls[q] = {publish_url_of(TweetB)}
        /\ RecordsOf(p, publish_url_of(TweetA)) # <<>>
        /\ RecordsOf(q, publish_url_of(TweetB)) # <<>>
        /\ unique_authors = <<[name |-> Jane, url |-> Origin \o <<"/", "b">>]>>

\* C9: at most one pipeline is inside a guarded section, the lock is held
\* exactly while one is, and the result list and the author dictionary change
\* only in a step of a pipeline that is inside a guarded section, holds the
\* lock and releases it with that step.
C9_LockDiscipline ==
    /\ [](/\ \A p, q \in Tasks :
               (pc[p] \in GuardedStates /\ pc[q] \in GuardedStates) => p = q
          /\ data_lock <=> \E p \in Tasks : pc[p] \in GuardedStates)
    /\ [][(all_tweet_data' # all_tweet_data \/ unique_authors' # unique_authors)
          => \E p \in Tasks :
                /\ pc[p] \in GuardedStates
                /\ data_lock
                /\ StepOf(p)
                /\ pc'[p] \notin GuardedStates
                /\ ~data_lock'
       ]_vars

\* C9 witness: one pipeline is inside the guarded append while the other waits
\* for the lock before its author registration
C9_Witness ==
    \E p, q \in Tasks :
        /\ pc[p] = "img_cs"
        /\ pc[q] = "author_lock"
        /\ data_lock

SetupFailed(p) ==
    /\ p \in Tasks
    /\ setup_result[p] \in {"FileNotFoundError", "JSONDecodeError", "Exception", "TimeoutError"}

SetupPassed(p) == p \in Tasks /\ setup_result[p] = "ok"

\* C10: a pipeline whose cookie load or navigation failed has returned without
\* a scroll and without a record of its own, its page closed if it had one;
\* every other pipeline that got past its own setup still runs to the end of
\* its loop, since the export that follows every setup failure is taken only
\* once each of them has finished; and that export saves the whole result list.
C10_SetupFailureIsolated ==
    /\ [](\A p \in Tasks : SetupFailed(p) =>
            /\ pc[p] = "returned"
            /\ scrolled[p] = 0
            /\ page[p] \in {"none", "closed"}
            /\ \A n \in 1..Len(all_tweet_data) : all_tweet_data[n].task_name # async_name(p))
    /\ [](mpc = "saved" =>
            /\ [n \in 1..Len(exported.rows) |-> exported.rows[n].data] = all_tweet_data
            /\ \A q \in Tasks : SetupPassed(q) => pc[q] = "finished")
    /\ (\E p \in Tasks : SetupFailed(p)) ~> (mpc = "saved")

\* C10 witness: one pipeline failed its setup, the other ran its loop to the
\* end, and its records are in the saved workbook
C10_Witness ==
    \E p, q \in Tasks :
        /\ SetupFailed(p)
        /\ pc[q] = "finished"
        /\ x[q] > 0
        /\ mpc = "saved"
        /\ exported.rows # <<>>
        /\ \A n \in 1..Len(exported.rows) : exported.rows[n].data.task_name = async_name(q)

\* main() is over
MainOver == mpc \in {"returned", "saved"}

\* C11: when the target file is absent or holds no URL, main() does not end
\* before the export has run: the run ends with a saved, empty workbook.
C11_EmptyTargetsStillExport ==
    (MainOver /\ target_urls = <<>>) => (mpc = "saved" /\ exported.rows = <<>>)

\* C12: after an interrupt that arrives while the pipelines are scraping, the
\* records appended so far are exported: the interrupted run ends with a saved
\* workbook that holds every record of the result list.
C12_InterruptStillExports ==
    mpc = "interrupted"
    => [n \in 1..Len(exported.rows) |-> exported.rows[n].data] = all_tweet_data

\* the pipeline holds the parsed fields of the block it is looking at
Parsed(p) ==
    pc[p] \in {"author_lock", "author_cs", "append_lock", "append_cs", "fetch",
               "img_lock", "img_cs"}

\* s ends with suf
EndsWith(s, suf) ==
    Len(s) >= Len(suf) /\ SubSeq(s, Len(s) - Len(suf) + 1, Len(s)) = suf

\* the span is an explicit handle
IsHandle(span) == span # <<>> /\ span[1] = "@"

IsProfileUrl(url) == startswith(url, ProfilePrefix) /\ base_username(url) # <<>>

\* C14: when no span of the block is an explicit handle, whatever the number
\* of spans, and the target of the pipeline is a profile URL, the profile URL
\* of the item is the target URL and its handle is '@' and the trailing path
\* segment of the target.
C14_HandleInferredFromTarget ==
    \A p \in Tasks :
        (/\ Parsed(p)
         /\ \A n \in 1..Len(CurrentBlock(p).user) : ~IsHandle(CurrentBlock(p).user[n])
         /\ IsProfileUrl(target_urls[p]))
        => /\ art[p].tweet_data.author_profile_url = target_urls[p]
           /\ EndsWith(art[p].tweet_data.author, <<"@">> \o base_username(target_urls[p]))

\* the case of C14 the code serves: two spans or more, none of them a handle
C14_Witness ==
    \E p \in Tasks :
        /\ Parsed(p)
        /\ CurrentBlock(p).user = <<Jane, Jane>>
        /\ target_urls[p] = TargetAlice
        /\ art[p].tweet_data.author_profile_url = TargetAlice
        /\ art[p].tweet_data.author = Jane \o <<" ", "@", "alice">>

\* the block is an advertisement, or has no time element, or its time element
\* has no permalink
Skipped(b) == b.ad \/ ~b.time \/ b.href = <<>>

BaseSegment(image_url) == SplitLast(SplitFirst(image_url, "?"), "/")

\* C16: the local path of every record with an image URL X ends in "/", the
\* last path segment of X without its query string, and ".jpg", whether X has
\* a query string or not.
C16_LocalPathNamedAfterImage ==
    \A n \in 1..Len(all_tweet_data) :
        all_tweet_data[n].image_url # <<>>
        => EndsWith(all_tweet_data[n].local_image_path,
                    <<"/">> \o BaseSegment(all_tweet_data[n].image_url) \o <<".jpg">>)

\* the case of C16 the code serves: an image URL with a query string
C16_Witness ==
    \E n \in 1..Len(all_tweet_data) :
        /\ all_tweet_data[n].image_url = ImgSlashInQuery
        /\ EndsWith(all_tweet_data[n].local_image_path, <<"/", "img4", ".jpg">>)

\* the cookie load of the pipeline has ended without an error
LoadedCookies(p) == pc[p] = "new_page" \/ page[p] # "none"

\* the entry has a sameSite value that is no spelling of strict, lax or none
Unrecognized(cookie) ==
    /\ "sameSite" \in DOMAIN cookie
    /\ cookie.sameSite \notin {"strict", "lax", "none", "Strict", "Lax", "None"}

\* the cookie `held` by the context is the entry of the file, its sameSite
\* attribute apart
SameButSameSite(held, cookie) ==
    /\ DOMAIN held \ {"sameSite"} = DOMAIN cookie \ {"sameSite"}
    /\ \A k \in DOMAIN cookie \ {"sameSite"} : held[k] = cookie[k]

\* C17: after a cookie load without error every entry of the file is in the
\* context with its other fields as in the file and a sameSite attribute, if
\* any, that is one of Strict, Lax, None; an entry with an unrecognized
\* sameSite value is there without the attribute; and the pipeline goes on to
\* open its page.
C17_UnrecognizedSameSiteDropped ==
    /\ [](\A p \in Tasks : LoadedCookies(p) =>
            \A n \in 1..Len(cookies_json) :
               \E held \in context_cookies :
                  /\ SameButSameSite(held, cookies_json[n])
                  /\ "sameSite" \in DOMAIN held => held.sameSite \in {"Strict", "Lax", "None"}
                  /\ Unrecognized(cookies_json[n]) => "sameSite" \notin DOMAIN held)
    /\ [][\A p \in Tasks :
            (pc[p] = "cookies" /\ setup_result'[p] = "cookies") => pc'[p] = "new_page"]_vars

\* C17 witness: a file with an unrecognized, a recognized and no sameSite
\* value was loaded; the three cookies are in the context and the pipeline
\* is about to navigate
C17_Witness ==
    \E p \in Tasks :
        /\ pc[p] = "goto"
        /\ cookies_json = <<Cookie("auth_token", "t1", "unspecified"),
                            Cookie("ct0", "c1", "strict"), Cookie("lang", "en", "absent")>>
        /\ context_cookies = {Cookie("auth_token", "t1", "absent"),
                              Cookie("ct0", "c1", "Strict"), Cookie("lang", "en", "absent")}

\* the line without the whitespace around it
Trimmed(line) ==
    LET inked == {n \in 1..Len(line) : line[n] # " "}
    IN  IF inked = {} THEN <<>>
        ELSE SubSeq(line, CHOOSE a \in inked : \A n \in inked : a <= n,
                          CHOOSE b \in inked : \A n \in inked : n <= b)

\* the lines of the target file that are URLs once trimmed
UrlLines ==
    {n \in 1..Len(url_file.lines) :
        /\ Trimmed(url_file.lines[n]) # <<>>
        /\ Trimmed(url_file.lines[n])[1] \in {"http:", "https:"}}

\* C18: once the target file is read, the target list is empty when the file
\* is absent, and otherwise holds the trimmed text of exactly the lines that
\* are non-empty after trimming and start with http, in the order of the file.
C18_TargetsAreHttpLines ==
    mpc # "start"
    => IF ~url_file.exists THEN target_urls = <<>>
       ELSE /\ Len(target_urls) = Cardinality(UrlLines)
            /\ \A n \in UrlLines :
                  target_urls[Cardinality({m \in UrlLines : m <= n})]
                     = Trimmed(url_file.lines[n])

\* C18 witness: a file with a padded URL, a line that is no URL, a blank line
\* and a URL was read, and the target list holds the two URLs in file order
C18_Witness ==
    /\ mpc = "gather"
    /\ url_file = MixedTargets
    /\ target_urls = <<TargetBob, TargetAlice>>

\* the next step of the pipeline ends the processing of its block in one of
\* the except clauses: the timestamp does not parse, or an img has no src
FailsNow(p) ==
    \/ /\ pc[p] = "article"
       /\ Accepted(p, CurrentBlock(p))
       /\ ~strptime_ok(CurrentBlock(p).datetime)
    \/ /\ pc[p] = "fetch"
       /\ art[p].publish_images[art[p].k] = None

\* C19: when the processing of a block ends in a caught exception, the result
\* list holds no record of that block.
C19_FailedItemsLeaveNoRecord ==
    [][\A p \in Tasks :
          (FailsNow(p) /\ StepOf(p))
          => \A n \in 1..Len(all_tweet_data') :
                ~(/\ all_tweet_data'[n].task_name = async_name(p)
                  /\ all_tweet_data'[n].publish_url = publish_url_of(CurrentBlock(p)))
      ]_vars

\* the case of C19 the code serves: a block whose timestamp does not parse
\* was accepted and left, and the result list has no record of it
C19_Witness ==
    \E p \in Tasks :
        /\ publish_url_of(TweetBadTime) \in processed_tweet_urls[p]
        /\ pc[p] = "endpass"
        /\ RecordsOf(p, publish_url_of(TweetBadTime)) = <<>>

\* C20: an error of one pipeline, at whatever point, stays inside it: no other
\* pipeline is cancelled, and main() ends only with the export of the records.
C20_FailuresStayInside ==
    /\ \A q \in Tasks : pc[q] # "cancelled"
    /\ mpc \notin {"start", "gather"}
       => /\ mpc = "saved"
          /\ [n \in 1..Len(exported.rows) |-> exported.rows[n].data] = all_tweet_data

\* the case of C20 the code serves: an error caught inside the pipeline
\* (navigation) while the other pipeline finishes and its records are exported
C20_Witness ==
    \E p, q \in Tasks :
        /\ setup_result[p] = "TimeoutError"
        /\ pc[p] = "returned"
        /\ pc[q] = "finished"
        /\ mpc = "saved"
        /\ \E n \in 1..Len(exported.rows) : exported.rows[n].data.task_name = async_name(q)

\* a file is at the absolute path
FileAt(fs, path) == \E f \in fs : abspath(f) = path

\* C21: no file is at the local path of a record whose retrieval failed: none
\* when the record is appended, and none appears later at a path that a record
\* names and no file is at, whatever the other fetches do; so the export finds
\* no file there.
C21_FailedImageHasNoFile ==
    /\ [][\A p \in Tasks :
            (pc[p] = "img_cs" /\ DownloadFailed(p) /\ StepOf(p))
            => ~FileAt(files', art[p].current_image_data.local_image_path)]_vars
    /\ [][\A n \in 1..Len(all_tweet_data) :
            (/\ all_tweet_data[n].local_image_path # <<>>
             /\ ~FileAt(files, all_tweet_data[n].local_image_path))
            => ~FileAt(files', all_tweet_data[n].local_image_path)]_vars

\* the case of C21 the code serves: every retrieval failed, no file was
\* written, and the export marks the record as not downloaded
C21_Witness ==
    /\ mpc = "saved"
    /\ files = {}
    /\ \E n \in 1..Len(exported.rows) : exported.rows[n].local = "not downloaded"

\* C22: a fetch never fails at the creation of the author directory, whatever
\* the other pipeline does: the step of a fetch with an image URL leaves the
\* directory in place and goes on to the download and the append.
C22_MakedirsNeverCollides ==
    [][\A p \in Tasks :
          (pc[p] = "fetch" /\ art[p].publish_images[art[p].k] # None /\ StepOf(p))
          => /\ author_image_dir(art[p].author) \in dirs'
             /\ pc'[p] = "img_lock"
             /\ art'[p].download # "none"
      ]_vars

\* C22 witness: two pipelines have each fetched their first image, for the
\* same author directory, which did not exist before, and no record is
\* appended yet
C22_Witness ==
    /\ all_tweet_data = <<>>
    /\ \A p \in Tasks : pc[p] = "img_lock" /\ art[p].k = 1
    /\ Cardinality(Tasks) = 2
    /\ dirs = {author_image_dir(Jane \o <<" ", "@", "a">>)}

\* the rows of the workbook, as records
ExportedData == [n \in 1..Len(exported.rows) |-> exported.rows[n].data]

\* C23: every step leaves the records of the result list in place, unchanged
\* and in order, and at most appends to it; the export is taken only when
\* every pipeline is over, reads the whole list, and the list stays as it was
\* read.
C23_AppendOnlyUntilExport ==
    /\ [][/\ Len(all_tweet_data') >= Len(all_tweet_data)
          /\ SubSeq(all_tweet_data', 1, Len(all_tweet_data)) = all_tweet_data]_vars
    /\ [][exported' # exported
          => /\ \A p \in Tasks : pc[p] \in Terminal
             /\ ExportedData' = all_tweet_data]_vars
    /\ [](mpc = "saved" => ExportedData = all_tweet_data)

\* C23 witness: three records or more, the first two of different pipelines,
\* and the export has read them all
C23_Witness ==
    /\ mpc = "saved"
    /\ Len(all_tweet_data) >= 3
    /\ all_tweet_data[1].task_name # all_tweet_data[2].task_name
    /\ ExportedData = all_tweet_data

\* C24: a pipeline that looks at a block with a permalink its own dedup set
\* does not hold can accept it, whatever the dedup sets of the other
\* pipelines hold; and no step of one pipeline changes the dedup set of
\* another.
C24_DedupIsLocal ==
    /\ [](\A p \in Tasks :
            (/\ pc[p] = "article"
             /\ ~Skipped(CurrentBlock(p))
             /\ publish_url_of(CurrentBlock(p)) \notin processed_tweet_urls[p])
            => ENABLED (/\ ProcessArticle(p)
                        /\ publish_url_of(CurrentBlock(p)) \in processed_tweet_urls'[p]
                        /\ processed_this_scroll'[p] = processed_this_scroll[p] + 1))
    /\ [][\A p, q \in Tasks :
            (StepOf(p) /\ q # p) => processed_tweet_urls'[q] = processed_tweet_urls[q]]_vars

\* C24 witness: the item /s1 is in the dedup set of both pipelines and the
\* result list has a record of it under each pipeline's label
C24_Witness ==
    /\ Cardinality(Tasks) = 2
    /\ \A p \in Tasks :
          /\ publish_url_of(TweetA) \in processed_tweet_urls[p]
          /\ Len(RecordsOf(p, publish_url_of(TweetA))) = 1

\* the pipeline is between two blocks: no block is being processed
BetweenBlocks(p) == pc[p] \in {"scroll", "wait", "article", "endpass", "closing", "finished"}

\* C25: while a pipeline is between blocks, every permalink of its dedup set
\* has a record of that pipeline in the result list.
C25_DedupSetOnlyEmitted ==
    \A p \in Tasks :
        BetweenBlocks(p)
        => \A u \in processed_tweet_urls[p] : RecordsOf(p, u) # <<>>

\* the case of C25 the code serves: two well-formed items were accepted and
\* each has its record
C25_Witness ==
    \E p \in Tasks :
        /\ pc[p] = "endpass"
        /\ processed_tweet_urls[p] = {publish_url_of(TweetA), publish_url_of(TweetB)}
        /\ RecordsOf(p, publish_url_of(TweetA)) # <<>>
        /\ RecordsOf(p, publish_url_of(TweetB)) # <<>>

\* the item the pipeline holds has an author name and a profile URL
HasNamedAuthor(p) ==
    art[p].author_name # <<>> /\ art[p].tweet_data.author_profile_url # <<>>

\* C26: from the end of the author registration on, and so at every append of
\* a record of the item, the author dictionary has an entry for the name of
\* an item with a name and a profile URL; and an entry, once there, stays.
C26_AuthorRegisteredBeforeAppend ==
    /\ [](\A p \in Tasks :
            (pc[p] \in {"append_lock", "append_cs", "fetch", "img_lock", "img_cs"}
             /\ HasNamedAuthor(p))
            => InAuthors(unique_authors, art[p].author_name))
    /\ [][\A p \in Tasks :
            (pc[p] \in {"append_cs", "img_cs"} /\ StepOf(p) /\ HasNamedAuthor(p))
            => /\ Len(all_tweet_data') = Len(all_tweet_data) + 1
               /\ InAuthors(unique_authors', art[p].author_name)]_vars
    /\ [][\A n \in 1..Len(unique_authors) :
            InAuthors(unique_authors', unique_authors[n].name)]_vars

\* C26 witness: a record of an item of Jane @a is in the result list and the
\* author dictionary has the entry of Jane
C26_Witness ==
    /\ \E n \in 1..Len(all_tweet_data) :
          /\ all_tweet_data[n].author = Jane \o <<" ", "@", "a">>
          /\ all_tweet_data[n].author_profile_url = Origin \o <<"/", "a">>
    /\ unique_authors = <<[name |-> Jane, url |-> Origin \o <<"/", "a">>]>>

\* the canonical value of a key of the normalization table
Canonical(key) ==
    CASE key = "strict" -> "Strict"
      [] key = "Lax" -> "Lax"
      [] key = "none" -> "None"

\* C27: after a cookie load without error, an entry of the file whose sameSite
\* is a key of the normalization table (strict, Lax, none) is in the context
\* with the canonical value of that key (Strict, Lax, None) as its sameSite.
C27_RecognizedSameSiteKept ==
    \A p \in Tasks : LoadedCookies(p) =>
        \A n \in 1..Len(cookies_json) :
            ("sameSite" \in DOMAIN cookies_json[n]
             /\ cookies_json[n].sameSite \in {"strict", "Lax", "none"})
            => \E held \in context_cookies :
                  /\ SameButSameSite(held, cookies_json[n])
                  /\ "sameSite" \in DOMAIN held
                  /\ held.sameSite = Canonical(cookies_json[n].sameSite)

\* the case of C27 the code serves: the key strict is passed on as Strict
C27_Witness ==
    \E p \in Tasks :
        /\ LoadedCookies(p)
        /\ cookies_json = <<Cookie("auth_token", "t1", "strict")>>
        /\ context_cookies = {Cookie("auth_token", "t1", "Strict")}

====
